---- MODULE Spec2Model ----
(***************************************************************************)
(* A model of pgtools.pool.ClientPool: a gevent-coroutine connection pool  *)
(* (get / put / closeall) and its connection() transaction scope.          *)
(*                                                                         *)
(* Greenlets are cooperative: a task runs until it yields.  The yield      *)
(* points of the code are create_connection() (the connect handshake),    *)
(* pool.get() on an empty queue, the unit of work, and the network round   *)
(* trips of commit() and rollback().  Every action below is one run of a   *)
(* task between two yield points.                                          *)
(*                                                                         *)
(* self.pool is a gevent.queue.Queue: the items are `pool`, the suspended  *)
(* getters are `getters`.  Queue.put() stores the item and only schedules  *)
(* the hub callback that resumes a getter; Queue.get() returns an item at  *)
(* once whenever the queue holds one, whether or not getters are waiting.  *)
(***************************************************************************)
EXTENDS Integers, Sequences, FiniteSets, TLC

\* ---------------------------------------------------------------- bounds
NumTasks == 3
MaxCeiling == 2
NumLevels == 2
MaxRecords == 3
MaxBatch == 3
MaxPolls == 4

Tasks == 1..NumTasks
Conns == 1..MaxCeiling
Levels == 1..NumLevels

\* Python's None, for `conn = None` and `isolation_level=None`.
None == 0

VARIABLES
    maxsize,    \* self.maxsize
    size,       \* self.size
    pool,       \* items of self.pool, oldest first
    getters,    \* tasks suspended in self.pool.get(), oldest first
    made,       \* connections create_connection() has returned so far
    closed,     \* conn.closed, per connection
    level,      \* conn.isolation_level, per connection
    tk,         \* per task: position in the code and the locals of its call
    ret,        \* the call that returned in the last step, as its caller saw it
    fi,         \* the fetchiter() generator: its cursor and what it has yielded
    ctor,       \* a constructor call: its arguments and how it ended
    wcb         \* a call of gevent_wait_callback: its polls and waits

vars ==
    <<maxsize, size, pool, getters, made, closed, level, tk, ret, fi, ctor, wcb>>

\* A task outside every pool call.
Fresh ==
    [pc |-> "idle", api |-> "none", req |-> None, conn |-> None, iso |-> None,
     prior |-> None]

\* No call returned in the last step.
NoCall ==
    [op |-> "none", task |-> None, how |-> "none", conn |-> None,
     work |-> "none", wasClosed |-> FALSE, req |-> None, prior |-> None,
     iso |-> None,
     sets |-> 0, commits |-> 0, rollbacks |-> 0, closealls |-> 0,
     closeCalls |-> <<>>, swallowed |-> {}, reported |-> 0, puts |-> 0,
     api |-> "none", exc |-> "none", args |-> <<>>]

Range(s) == {s[i] : i \in 1..Len(s)}

\* No fetchiter() generator exists.
NoFetch ==
    [pc |-> "none", task |-> None, M |-> 0, B |-> 0, pos |-> 0, fetches |-> 0,
     items |-> <<>>, out |-> <<>>]

\* The pool was built by a valid constructor call that is not looked at.
NoCtor ==
    [pc |-> "none", cls |-> "none", isInt |-> TRUE, arg |-> None,
     ptype |-> "none", exc |-> "none"]

\* No call of gevent_wait_callback is looked at.
NoWait ==
    [pc |-> "none", timeout |-> FALSE, seen |-> <<>>, waited |-> <<>>,
     exc |-> "none"]

\* ClientPool.__init__, with a positive integer ceiling.
Init ==
    /\ maxsize \in 1..MaxCeiling
    /\ size = 0
    /\ pool = <<>>
    /\ getters = <<>>
    /\ made = 0
    /\ closed = [c \in Conns |-> FALSE]
    /\ level = [c \in Conns |-> 1]
    /\ tk = [t \in Tasks |-> Fresh]
    /\ ret = NoCall
    /\ fi = NoFetch
    /\ ctor = NoCtor
    /\ wcb = NoWait

\* ------------------------------------------------------------ connection()
\* An entry that sets every requested level, whatever the connection has.
EnterIsoAlways(p, L) == L

\* Lines 130-134: the local isolation_level once the override is applied to
\* a connection at level p: None when nothing was requested or nothing set.
EnterIso(p, L) == IF L # None /\ p # L THEN L ELSE None

\* Lines 130-134: the connection's level after scope entry.
EnterLevel(p, L) == IF EnterIso(p, L) # None THEN L ELSE p

\* What a task does when get() hands it connection c, whose level is p: a
\* raw caller holds it; a connection() scope runs lines 129-135 and yields
\* it to the unit of work.
Obtained(r, c, p) ==
    IF r.api = "raw"
    THEN [r EXCEPT !.pc = "holding", !.conn = c]
    ELSE [r EXCEPT !.pc = "work", !.conn = c, !.prior = p,
                   !.iso = EnterIso(p, r.req)]

ObtainedLevel(r, c, p) ==
    IF r.api = "raw" THEN [level EXCEPT ![c] = p]
    ELSE [level EXCEPT ![c] = EnterLevel(p, r.req)]

\* A query() that lets every exception through as it is.
SurfacedRaw(api, exc) == exc

\* Lines 195-201: an exception that leaves a call made through query() is
\* caught and DBPoolError is raised in its place; any other call lets it
\* through.
Surfaced(api, exc) ==
    IF api = "query" /\ exc # "none" THEN "DBPoolError" ELSE exc

\* The args of the exception the caller gets, an exception of the model
\* having its own name as its args: DBPoolError(e.args) (line 201) has the
\* one argument e.args.
SurfacedArgs(api, exc) ==
    IF exc = "none" THEN <<>>
    ELSE IF Surfaced(api, exc) = exc THEN <<exc>>
    ELSE << <<exc>> >>

\* get() returned connection c to task t.
GetRet(t, how, c) ==
    [NoCall EXCEPT !.op = "get", !.task = t, !.how = how, !.conn = c]

\* ------------------------------------------------------------------ get()
\* Line 104 with > for >=: one connection too many is created.
AtCeilingOffByOne == size > maxsize \/ Len(pool) > 0

\* Line 104 without the test of self.size: an empty queue always creates.
AtCeilingIgnoresSize == Len(pool) > 0

\* Line 104 without the test of the queue: below the ceiling a connection
\* is created even when idle ones exist.
AtCeilingIgnoresQueue == size >= maxsize

\* Line 104: take from the queue rather than create.
AtCeiling == size >= maxsize \/ Len(pool) > 0

\* A get() that reads the oldest item and leaves it in the queue.
DequeuePeeks(q) == q

\* Queue.get() on a queue that holds items: the items left.
Dequeue(q) == Tail(q)

\* Lines 104-105, queue not empty: Queue.get() returns the oldest item at
\* once, whether or not other tasks are suspended in get().
GetIdle(t, api, L) ==
    /\ tk[t].pc = "idle"
    /\ AtCeiling
    /\ Len(pool) > 0
    /\ LET r == [Fresh EXCEPT !.api = api, !.req = L]
           c == Head(pool)
       IN /\ tk' = [tk EXCEPT ![t] = Obtained(r, c, level[c])]
          /\ level' = ObtainedLevel(r, c, level[c])
          /\ ret' = GetRet(t, "idle", c)
    /\ pool' = Dequeue(pool)
    /\ UNCHANGED <<wcb, fi, ctor, maxsize, size, getters, made, closed>>

\* Lines 104-105, queue empty: Queue.get() suspends the task.
GetWait(t, api, L) ==
    /\ tk[t].pc = "idle"
    /\ AtCeiling
    /\ Len(pool) = 0
    /\ tk' = [tk EXCEPT ![t] = [Fresh EXCEPT !.api = api, !.req = L, !.pc = "waiting"]]
    /\ getters' = Append(getters, t)
    /\ ret' = NoCall
    /\ UNCHANGED <<wcb, fi, ctor, maxsize, size, pool, made, closed, level>>

\* Lines 106-109: the slot is counted, then create_connection() yields.
GetCreate(t, api, L) ==
    /\ tk[t].pc = "idle"
    /\ ~AtCeiling
    /\ size' = size + 1
    /\ tk' = [tk EXCEPT ![t] = [Fresh EXCEPT !.api = api, !.req = L, !.pc = "creating"]]
    /\ ret' = NoCall
    /\ UNCHANGED <<wcb, fi, ctor, maxsize, pool, getters, made, closed, level>>

Get(t, api, L) ==
    \/ GetIdle(t, api, L)
    \/ GetWait(t, api, L)
    \/ GetCreate(t, api, L)

\* Lines 109, 113: create_connection() returns a new open connection, at
\* whatever isolation level the server gives it.
CreateOk(t) ==
    /\ tk[t].pc = "creating"
    /\ made < MaxCeiling
    /\ \E p \in Levels :
         LET c == made + 1
         IN /\ made' = c
            /\ tk' = [tk EXCEPT ![t] = Obtained(tk[t], c, p)]
            /\ level' = ObtainedLevel(tk[t], c, p)
            /\ ret' = GetRet(t, "created", c)
    /\ UNCHANGED <<wcb, fi, ctor, maxsize, size, pool, getters, closed>>

\* An except clause that re-raises without giving the slot back.
SlotKept(n) == n

\* Line 111: self.size -= 1.
SlotGivenBack(n) == n - 1

\* Lines 110-112: create_connection() raises; the slot is given back and
\* the exception leaves get().
CreateFails(t) ==
    /\ tk[t].pc = "creating"
    /\ size' = SlotGivenBack(size)
    /\ tk' = [tk EXCEPT ![t] = Fresh]
    /\ ret' = [GetRet(t, "failed", None) EXCEPT
                 !.api = tk[t].api,
                 !.exc = Surfaced(tk[t].api, "ConnectError"),
                 !.args = SurfacedArgs(tk[t].api, "ConnectError")]
    /\ UNCHANGED <<wcb, fi, ctor, maxsize, pool, getters, made, closed, level>>

\* The hub callback Queue.put() scheduled: the oldest getter takes the
\* oldest item and its pool.get() (line 105) returns.
Wake ==
    /\ getters # <<>>
    /\ pool # <<>>
    /\ LET t == Head(getters)
           c == Head(pool)
       IN /\ tk' = [tk EXCEPT ![t] = Obtained(tk[t], c, level[c])]
          /\ level' = ObtainedLevel(tk[t], c, level[c])
          /\ ret' = GetRet(t, "woken", c)
    /\ getters' = Tail(getters)
    /\ pool' = Dequeue(pool)
    /\ UNCHANGED <<wcb, fi, ctor, maxsize, size, made, closed>>

\* ------------------------------------------------------------------ put()
\* Lines 115-116, called by a task with the connection get() gave it.
Put(t) ==
    /\ tk[t].pc = "holding"
    /\ pool' = Append(pool, tk[t].conn)
    /\ tk' = [tk EXCEPT ![t] = Fresh]
    /\ ret' = [NoCall EXCEPT !.op = "put", !.task = t, !.conn = tk[t].conn, !.puts = 1]
    /\ UNCHANGED <<wcb, fi, ctor, maxsize, size, getters, made, closed, level>>

\* A caller of get() closes the connection it holds; nothing in put() stops
\* it from passing that connection to put() afterwards.
HolderCloses(t) ==
    /\ tk[t].pc = "holding"
    /\ ~closed[tk[t].conn]
    /\ closed' = [closed EXCEPT ![tk[t].conn] = TRUE]
    /\ ret' = NoCall
    /\ UNCHANGED <<wcb, fi, ctor, maxsize, size, pool, getters, made, level, tk>>

\* ------------------------------------------------------------- closeall()
\* A loop without line 123: the first close() that raises ends it.
CloseCallsUntilRaise(q, raised) ==
    IF q = <<>> THEN q
    ELSE LET n == CHOOSE i \in 1..Len(q) :
                    /\ i = Len(q) \/ q[i] \in raised
                    /\ \A j \in 1..(i - 1) : q[j] \notin raised
         IN SubSeq(q, 1, n)

\* Lines 119-124: the connections close() is called on, in order, when the
\* queue holds q and close() raises on the connections in raised; the
\* except clause swallows each failure and the loop goes on.
CloseCalls(q, raised) == q

\* The closed flags once close() was called on every connection of calls;
\* the driver sets the flag before anything in close() can fail.
ClosedAll(calls) == [c \in Conns |-> closed[c] \/ c \in Range(calls)]

\* The items get_nowait() (line 120) has not taken when the loop ends.
LeftIdle(q, calls) == SubSeq(q, Len(calls) + 1, Len(q))

\* What closeall() adds to what the caller has seen.
CloseAllRet(r, calls, raised) ==
    [r EXCEPT !.closealls = 1, !.closeCalls = calls,
              !.swallowed = raised \cap Range(calls)]

\* Lines 118-124.  No statement of closeall() yields, so no other task runs
\* while it does.
CloseAll(t) ==
    /\ tk[t].pc = "idle"
    /\ \E raised \in SUBSET Range(pool) :
         LET calls == CloseCalls(pool, raised)
         IN /\ closed' = ClosedAll(calls)
            /\ pool' = LeftIdle(pool, calls)
            /\ ret' = CloseAllRet([NoCall EXCEPT !.op = "closeall", !.task = t],
                                  calls, raised)
    /\ UNCHANGED <<wcb, fi, ctor, maxsize, size, getters, made, level, tk>>

\* --------------------------------------------------------- the unit of work
\* The unit of work closes the connection it was yielded.
WorkCloses(t) ==
    /\ tk[t].pc = "work"
    /\ ~closed[tk[t].conn]
    /\ closed' = [closed EXCEPT ![tk[t].conn] = TRUE]
    /\ ret' = NoCall
    /\ UNCHANGED <<wcb, fi, ctor, maxsize, size, pool, getters, made, level, tk>>

\* ------------------------------------------------------------- scope exit
\* A finally block without the test of conn.closed.
FinallyPutsAny(cn, cl) == cn # None

\* Line 150: the finally block returns the connection.
FinallyPuts(cn, cl) == cn # None /\ ~cl[cn]

\* Lines 151-152: the level the finally block sets on the connection.
FinallyLevel(r, cn, cl) ==
    IF FinallyPuts(cn, cl) /\ r.iso # None
    THEN [level EXCEPT ![cn] = r.iso]
    ELSE level

\* A finally block that calls put() twice.
FinallyPoolTwice(q, cn, cl) ==
    IF FinallyPuts(cn, cl) THEN Append(Append(q, cn), cn) ELSE q

\* Line 153.
FinallyPool(q, cn, cl) == IF FinallyPuts(cn, cl) THEN Append(q, cn) ELSE q

\* An else block that never commits.
ElseCommitsNever(wasClosed) == 0

\* An else block without lines 144-147: commit() is called in any case.
ElseCommitsAlways(wasClosed) == 1

\* Lines 144-148: the commit() calls of the else block; none when the
\* connection reports closed, since line 145 raises first.
ElseCommits(wasClosed) == IF wasClosed THEN 0 ELSE 1

\* What the caller of connection() has seen when the scope exits: r are the
\* task's locals, cn the local conn and cl the closed flags at line 149.
ScopeRet(t, r, work, cn, cl, exc) ==
    [NoCall EXCEPT !.op = "scope", !.task = t, !.conn = r.conn, !.work = work,
        !.wasClosed = closed[r.conn], !.req = r.req, !.prior = r.prior,
        !.iso = r.iso,
        !.sets = (IF r.iso # None THEN 1 ELSE 0)
                 + (IF FinallyPuts(cn, cl) /\ r.iso # None THEN 1 ELSE 0),
        !.puts = IF FinallyPuts(cn, cl) THEN 1 ELSE 0,
        !.api = r.api,
        !.exc = Surfaced(r.api, exc),
        !.args = SurfacedArgs(r.api, exc)]

\* The unit of work returns with the connection closed.  Lines 144-147,
\* 149-150: OperationalError.
ElseClosed(t) ==
    /\ tk[t].pc = "work"
    /\ closed[tk[t].conn]
    /\ tk' = [tk EXCEPT ![t] = Fresh]
    /\ ret' = [ScopeRet(t, tk[t], "returned", tk[t].conn, closed, "OperationalError")
                 EXCEPT !.commits = ElseCommits(closed[tk[t].conn])]
    /\ level' = FinallyLevel(tk[t], tk[t].conn, closed)
    /\ pool' = FinallyPool(pool, tk[t].conn, closed)
    /\ UNCHANGED <<wcb, fi, ctor, maxsize, size, getters, made, closed>>

\* The unit of work returns with the connection open.  Lines 148-153:
\* commit() returns.
CommitOk(t) ==
    /\ tk[t].pc = "work"
    /\ ~closed[tk[t].conn]
    /\ tk' = [tk EXCEPT ![t] = Fresh]
    /\ ret' = [ScopeRet(t, tk[t], "returned", tk[t].conn, closed, "none")
                 EXCEPT !.commits = ElseCommits(closed[tk[t].conn])]
    /\ level' = FinallyLevel(tk[t], tk[t].conn, closed)
    /\ pool' = FinallyPool(pool, tk[t].conn, closed)
    /\ UNCHANGED <<wcb, fi, ctor, maxsize, size, getters, made, closed>>

\* The unit of work returns with the connection open.  Lines 148-153:
\* commit() raises, leaving the connection open or closed.
CommitFails(t) ==
    /\ tk[t].pc = "work"
    /\ ~closed[tk[t].conn]
    /\ \E dropped \in BOOLEAN :
         LET cl == [closed EXCEPT ![tk[t].conn] = dropped]
         IN /\ closed' = cl
            /\ ret' = [ScopeRet(t, tk[t], "returned", tk[t].conn, cl, "CommitError")
                         EXCEPT !.commits = ElseCommits(closed[tk[t].conn])]
            /\ level' = FinallyLevel(tk[t], tk[t].conn, cl)
            /\ pool' = FinallyPool(pool, tk[t].conn, cl)
    /\ tk' = [tk EXCEPT ![t] = Fresh]
    /\ UNCHANGED <<wcb, fi, ctor, maxsize, size, getters, made>>

\* The unit of work raises with the connection closed.  Lines 137-139, 142,
\* 149-150: the connection is dropped (conn = None) and closeall() runs.
ExceptClosed(t) ==
    /\ tk[t].pc = "work"
    /\ closed[tk[t].conn]
    /\ \E raised \in SUBSET Range(pool) :
         LET calls == CloseCalls(pool, raised)
             cl == ClosedAll(calls)
         IN /\ closed' = cl
            /\ pool' = FinallyPool(LeftIdle(pool, calls), None, cl)
            /\ ret' = CloseAllRet(ScopeRet(t, tk[t], "raised", None, cl, "WorkError"),
                                  calls, raised)
            /\ level' = FinallyLevel(tk[t], None, cl)
    /\ tk' = [tk EXCEPT ![t] = Fresh]
    /\ UNCHANGED <<wcb, fi, ctor, maxsize, size, getters, made>>

\* A _rollback that returns the connection whether or not rollback() raised.
_rollbackKeeps(cn, ok) == cn

\* ClientPool._rollback, lines 161-167: the connection when rollback()
\* returned, None when it raised and the failure went to the hub.
_rollback(cn, ok) == IF ok THEN cn ELSE None

\* A _rollback without its except clause: the failure of rollback() replaces
\* the exception of the unit of work.
ReraisedRollbackError(exc, ok) == IF ok THEN exc ELSE "RollbackError"

\* Lines 165-166 and 142: the failure of rollback() is handed to the hub and
\* the exception of the unit of work is the one that is re-raised.
Reraised(exc, ok) == exc

\* The unit of work raises with the connection open.  Lines 140-142,
\* 149-153: rollback() is attempted.
ExceptRollback(t) ==
    /\ tk[t].pc = "work"
    /\ ~closed[tk[t].conn]
    /\ \E ok \in BOOLEAN :
         LET cn == _rollback(tk[t].conn, ok)
         IN /\ ret' = [ScopeRet(t, tk[t], "raised", cn, closed, Reraised("WorkError", ok))
                         EXCEPT !.rollbacks = 1,
                                !.reported = IF ok THEN 0 ELSE 1]
            /\ level' = FinallyLevel(tk[t], cn, closed)
            /\ pool' = FinallyPool(pool, cn, closed)
    /\ tk' = [tk EXCEPT ![t] = Fresh]
    /\ UNCHANGED <<wcb, fi, ctor, maxsize, size, getters, made, closed>>

\* ---------------------------------------------------------------- query()
\* Lines 38-41: the fetch modes query() knows.
CURSOR_FETCH == {"many", "single"}

\* Lines 196-199 with a fetch mode that CURSOR_FETCH does not hold, or a
\* cursor type psycopg2.extras does not hold: getattr() raises before any
\* pool call is made, and lines 200-201 wrap it.
QueryBadMode(t) ==
    /\ tk[t].pc = "idle"
    /\ \E mode \in CURSOR_FETCH \cup {"bogus"}, known \in BOOLEAN :
         /\ mode \notin CURSOR_FETCH \/ ~known
         /\ LET e == IF mode \notin CURSOR_FETCH THEN "TypeError"
                     ELSE "AttributeError"
            IN ret' = [NoCall EXCEPT !.op = "query", !.task = t,
                                     !.api = "query",
                                     !.exc = Surfaced("query", e),
                                     !.args = SurfacedArgs("query", e)]
    /\ UNCHANGED <<wcb, fi, ctor, maxsize, size, pool, getters, made, closed,
                   level, tk>>

\* Tasks that call query(): fetchall() or fetchone() opens a scope through
\* cursor() with no isolation level, and the statement is its unit of work.
NextQuery ==
    \/ \E t \in Tasks : QueryBadMode(t)
    \/ \E t \in Tasks : Get(t, "query", None)
    \/ \E t \in Tasks : CreateOk(t)
    \/ \E t \in Tasks : CreateFails(t)
    \/ Wake
    \/ \E t \in Tasks : WorkCloses(t)
    \/ \E t \in Tasks : ElseClosed(t)
    \/ \E t \in Tasks : CommitOk(t)
    \/ \E t \in Tasks : CommitFails(t)
    \/ \E t \in Tasks : ExceptClosed(t)
    \/ \E t \in Tasks : ExceptRollback(t)

SpecQuery == Init /\ [][NextQuery]_vars

\* ------------------------------------------------------------------- Next
Next ==
    \/ \E t \in Tasks : Get(t, "raw", None)
    \/ \E t \in Tasks : \E L \in {None} \cup Levels : Get(t, "scope", L)
    \/ \E t \in Tasks : CreateOk(t)
    \/ \E t \in Tasks : CreateFails(t)
    \/ Wake
    \/ \E t \in Tasks : Put(t)
    \/ \E t \in Tasks : CloseAll(t)
    \/ \E t \in Tasks : WorkCloses(t)
    \/ \E t \in Tasks : ElseClosed(t)
    \/ \E t \in Tasks : CommitOk(t)
    \/ \E t \in Tasks : CommitFails(t)
    \/ \E t \in Tasks : ExceptClosed(t)
    \/ \E t \in Tasks : ExceptRollback(t)

Spec == Init /\ [][Next]_vars

\* ---------------------------------------------------- gevent_wait_callback
\* What conn.poll() can return: the four states of psycopg2.extensions and
\* any other value.
PollStates == {"POLL_OK", "POLL_READ", "POLL_WRITE", "POLL_ERROR", "other"}

\* The driver calls gevent_wait_callback(conn) on a connection of the pool,
\* with or without a timeout.
InitWait ==
    /\ maxsize \in 1..MaxCeiling
    /\ size = 0
    /\ pool = <<>>
    /\ getters = <<>>
    /\ made = 0
    /\ closed = [c \in Conns |-> FALSE]
    /\ level = [c \in Conns |-> 1]
    /\ tk = [t \in Tasks |-> Fresh]
    /\ ret = NoCall
    /\ fi = NoFetch
    /\ ctor = NoCtor
    /\ \E to \in BOOLEAN : wcb = [NoWait EXCEPT !.pc = "poll", !.timeout = to]

\* A dispatch that takes every state but POLL_READ and POLL_WRITE for
\* success.
DispatchLenient(state) ==
    IF state = "POLL_READ" THEN "wait_read"
    ELSE IF state = "POLL_WRITE" THEN "wait_write"
    ELSE "returned"

\* Lines 67-75: where the callback goes on a poll result.
Dispatch(state) ==
    IF state = "POLL_OK" THEN "returned"
    ELSE IF state = "POLL_READ" THEN "wait_read"
    ELSE IF state = "POLL_WRITE" THEN "wait_write"
    ELSE "raised"

\* Lines 66-75: state = conn.poll() and the branch on it.
Poll ==
    /\ wcb.pc = "poll"
    /\ Len(wcb.seen) < MaxPolls
    /\ \E state \in PollStates :
         wcb' = [wcb EXCEPT
                   !.seen = Append(wcb.seen, state),
                   !.pc = Dispatch(state),
                   !.exc = IF Dispatch(state) = "raised" THEN "OperationalError"
                           ELSE "none"]
    /\ UNCHANGED <<maxsize, size, pool, getters, made, closed, level, tk, ret,
                   fi, ctor>>

\* Line 70: wait_read(conn.fileno(), timeout=timeout) yields to the hub and
\* returns when the descriptor is readable; the loop polls again.
WaitRead ==
    /\ wcb.pc = "wait_read"
    /\ wcb' = [wcb EXCEPT !.waited = Append(wcb.waited, "read"), !.pc = "poll"]
    /\ UNCHANGED <<maxsize, size, pool, getters, made, closed, level, tk, ret,
                   fi, ctor>>

\* Line 72: wait_write(conn.fileno(), timeout=timeout), likewise.
WaitWrite ==
    /\ wcb.pc = "wait_write"
    /\ wcb' = [wcb EXCEPT !.waited = Append(wcb.waited, "write"), !.pc = "poll"]
    /\ UNCHANGED <<maxsize, size, pool, getters, made, closed, level, tk, ret,
                   fi, ctor>>

\* Lines 70, 72 with a timeout: the wait raises when the time is up and the
\* exception leaves the callback.
WaitTimesOut ==
    /\ wcb.pc \in {"wait_read", "wait_write"}
    /\ wcb.timeout
    /\ wcb' = [wcb EXCEPT
                 !.waited = Append(wcb.waited,
                                   IF wcb.pc = "wait_read" THEN "read"
                                   ELSE "write"),
                 !.pc = "raised", !.exc = "timeout"]
    /\ UNCHANGED <<maxsize, size, pool, getters, made, closed, level, tk, ret,
                   fi, ctor>>

NextWait ==
    \/ Poll
    \/ WaitRead
    \/ WaitWrite
    \/ WaitTimesOut

SpecWait == InitWait /\ [][NextWait]_vars

\* ------------------------------------------------------------ construction
\* engine.py lines 19-23: the selectors _pool_factory knows.
POOL_TYPE == {"threaded", "single", "persist"}

\* A constructor call that has not run yet: ClientPool(maxsize) with an
\* integer or a non-integer (a float, say) of value -1..MaxCeiling, or
\* DBPoolEngine(pool_size, pool_type) with a known or an unknown selector.
\* No pool object exists; its fields are placeholders until __init__ runs.
InitCtor ==
    /\ maxsize = None
    /\ size = 0
    /\ pool = <<>>
    /\ getters = <<>>
    /\ made = 0
    /\ closed = [c \in Conns |-> FALSE]
    /\ level = [c \in Conns |-> 1]
    /\ tk = [t \in Tasks |-> Fresh]
    /\ ret = NoCall
    /\ fi = NoFetch
    /\ wcb = NoWait
    /\ \/ \E i \in BOOLEAN, n \in -1..MaxCeiling :
            ctor = [NoCtor EXCEPT !.pc = "args", !.cls = "pool", !.isInt = i,
                                  !.arg = n]
       \/ \E n \in -1..MaxCeiling, p \in POOL_TYPE \cup {"bogus"} :
            ctor = [NoCtor EXCEPT !.pc = "args", !.cls = "engine", !.arg = n,
                                  !.ptype = p]

\* ClientPool.__init__, pool.py lines 92-97: the type of maxsize is the only
\* thing tested.
ConstructPool ==
    /\ ctor.pc = "args"
    /\ ctor.cls = "pool"
    /\ IF ~ctor.isInt
       THEN /\ ctor' = [ctor EXCEPT !.pc = "failed", !.exc = "TypeError"]
            /\ UNCHANGED <<maxsize, size, pool>>
       ELSE /\ ctor' = [ctor EXCEPT !.pc = "built"]
            /\ maxsize' = ctor.arg
            /\ size' = 0
            /\ pool' = <<>>
    /\ ret' = NoCall
    /\ UNCHANGED <<wcb, fi, getters, made, closed, level, tk>>

\* DBPoolEngine.__init__, engine.py lines 79-88: the arguments are stored
\* and db is None.
ConstructEngine ==
    /\ ctor.pc = "args"
    /\ ctor.cls = "engine"
    /\ ctor' = [ctor EXCEPT !.pc = "built"]
    /\ ret' = NoCall
    /\ UNCHANGED <<wcb, fi, maxsize, size, pool, getters, made, closed, level, tk>>

\* engine.py lines 153-157.
_pool_factory(pool_type) ==
    IF pool_type \notin POOL_TYPE THEN "EngineError" ELSE "none"

\* The first query() on an engine: _get_cursor (engine.py lines 121-122)
\* calls _init_connection (lines 100-110), which calls _pool_factory.
EngineFirstUse ==
    /\ ctor.pc = "built"
    /\ ctor.cls = "engine"
    /\ ctor' = [ctor EXCEPT
                  !.pc = IF _pool_factory(ctor.ptype) = "none" THEN "used"
                         ELSE "failedAtUse",
                  !.exc = _pool_factory(ctor.ptype)]
    /\ ret' = NoCall
    /\ UNCHANGED <<wcb, fi, maxsize, size, pool, getters, made, closed, level, tk>>

\* The pool object exists.
PoolBuilt == ctor.cls = "pool" /\ ctor.pc = "built"

\* A constructor call, then tasks that call get() and put() on the pool it
\* built.
NextCtor ==
    \/ ConstructPool
    \/ ConstructEngine
    \/ EngineFirstUse
    \/ PoolBuilt /\ \E t \in Tasks : Get(t, "raw", None)
    \/ PoolBuilt /\ \E t \in Tasks : CreateOk(t)
    \/ PoolBuilt /\ Wake
    \/ PoolBuilt /\ \E t \in Tasks : Put(t)

SpecCtor == InitCtor /\ [][NextCtor]_vars

\* ------------------------------------------------------------- fetchiter()
\* Task 1 iterates fetchiter() over a result set of M records, numbered in
\* server order, on a cursor whose arraysize is B.
InitFetch ==
    /\ maxsize \in 1..MaxCeiling
    /\ size = 0
    /\ pool = <<>>
    /\ getters = <<>>
    /\ made = 0
    /\ closed = [c \in Conns |-> FALSE]
    /\ level = [c \in Conns |-> 1]
    /\ tk = [t \in Tasks |-> Fresh]
    /\ ret = NoCall
    /\ \E M \in 0..MaxRecords, B \in 1..MaxBatch :
         fi = [NoFetch EXCEPT !.pc = "new", !.task = 1, !.M = M, !.B = B]
    /\ ctor = NoCtor
    /\ wcb = NoWait

\* cursor.fetchmany() with no argument: the next arraysize records, fewer at
\* the end of the result set, none after it.
fetchmany(M, B, pos) ==
    LET n == IF M - pos < B THEN M - pos ELSE B
    IN [i \in 1..n |-> pos + i]

\* A loop that ends on the first batch shorter than arraysize.
LoopEndsOnShortBatch(items, B) == Len(items) < B

\* Lines 189-190: if not items: break.
LoopEnds(items, B) == items = <<>>

\* Lines 185-186, inside the scope that cursor() opened: cursor.execute().
FetchExecute ==
    /\ fi.pc = "new"
    /\ tk[fi.task].pc = "work"
    /\ fi' = [fi EXCEPT !.pc = "loop"]
    /\ ret' = NoCall
    /\ UNCHANGED <<wcb, ctor, maxsize, size, pool, getters, made, closed, level, tk>>

\* Lines 187-190: the batch before is used up; one more fetchmany().
FetchMany ==
    /\ fi.pc = "loop"
    /\ tk[fi.task].pc = "work"
    /\ fi.items = <<>>
    /\ LET items == fetchmany(fi.M, fi.B, fi.pos)
       IN fi' = [fi EXCEPT !.items = items,
                           !.pos = fi.pos + Len(items),
                           !.fetches = fi.fetches + 1,
                           !.pc = IF LoopEnds(items, fi.B) THEN "exhausted"
                                  ELSE "loop"]
    /\ ret' = NoCall
    /\ UNCHANGED <<wcb, ctor, maxsize, size, pool, getters, made, closed, level, tk>>

\* A loop that yields the last record of the batch each time.
YieldedLast(out, items) == Append(out, items[Len(items)])

\* Lines 191-192: what the consumer has received once the next record of
\* the batch is yielded.
Yielded(out, items) == Append(out, Head(items))

\* Lines 191-192: the generator yields the next record of the batch.
YieldItem ==
    /\ fi.pc = "loop"
    /\ tk[fi.task].pc = "work"
    /\ fi.items # <<>>
    /\ fi' = [fi EXCEPT !.items = Tail(fi.items),
                        !.out = Yielded(fi.out, fi.items)]
    /\ ret' = NoCall
    /\ UNCHANGED <<wcb, ctor, maxsize, size, pool, getters, made, closed, level, tk>>

\* The consumer closes the generator (or drops it and the collector closes
\* it) while it is suspended at the yield of line 192: GeneratorExit is
\* raised there and leaves the with block of line 185 towards the bare
\* except of connection() (line 136).
FetchClose ==
    /\ fi.pc = "loop"
    /\ tk[fi.task].pc = "work"
    /\ Len(fi.out) >= 1
    /\ fi' = [fi EXCEPT !.pc = "closing"]
    /\ ret' = NoCall
    /\ UNCHANGED <<wcb, ctor, maxsize, size, pool, getters, made, closed, level,
                   tk>>

\* Task 1 iterates fetchiter() to the end, or closes it earlier, while the
\* other tasks call get() and put(); after the break the with block of line
\* 185 ends and the scope commits; after a close the scope takes its except
\* block with GeneratorExit as the exception of the unit of work.
NextFetch ==
    \/ fi.pc = "new" /\ Get(fi.task, "scope", None)
    \/ \E t \in Tasks \ {fi.task} : Get(t, "raw", None)
    \/ \E t \in Tasks : CreateOk(t)
    \/ Wake
    \/ \E t \in Tasks : Put(t)
    \/ FetchExecute
    \/ FetchMany
    \/ YieldItem
    \/ fi.pc = "exhausted" /\ CommitOk(fi.task)
    \/ fi.pc = "exhausted" /\ CommitFails(fi.task)
    \/ FetchClose
    \/ fi.pc = "closing" /\ ExceptRollback(fi.task)

SpecFetch == InitFetch /\ [][NextFetch]_vars

\* Tasks that only call get() and put(), on connections they may have closed,
\* with create_connection() returning or raising.
NextRaw ==
    \/ \E t \in Tasks : Get(t, "raw", None)
    \/ \E t \in Tasks : CreateOk(t)
    \/ \E t \in Tasks : CreateFails(t)
    \/ Wake
    \/ \E t \in Tasks : HolderCloses(t)
    \/ \E t \in Tasks : Put(t)

SpecRaw == Init /\ [][NextRaw]_vars

\* Tasks that only call get() and put(), every create_connection() returning.
NextFair ==
    \/ \E t \in Tasks : Get(t, "raw", None)
    \/ \E t \in Tasks : CreateOk(t)
    \/ Wake
    \/ \E t \in Tasks : Put(t)

\* The same under fair scheduling: a connect handshake in progress ends,
\* every holder calls put(), and the hub runs the wake-up callback if it
\* stays due.  Nothing obliges the hub to run it before the task that called
\* put() runs on: put() does not yield.
SpecFair ==
    /\ Init
    /\ [][NextFair]_vars
    /\ WF_vars(Wake)
    /\ \A t \in Tasks : WF_vars(CreateOk(t)) /\ WF_vars(Put(t))

\* ----------------------------------------------------------------- claims
\* Tasks that hold a connection get() gave them.
Holders == {t \in Tasks : tk[t].pc \in {"holding", "work"}}

\* Tasks inside create_connection(): their slot is already counted.
Creating == {t \in Tasks : tk[t].pc = "creating"}

\* C1: in every reachable state, whatever the interleaving of get() and
\* put() and whether create_connection() yields or raises, self.size never
\* exceeds self.maxsize.
C1_CreatedNeverExceedsCeiling == size <= maxsize

\* C1 witness: the pool was at its ceiling with two tasks inside
\* create_connection() and a third suspended in get(); one
\* create_connection() has just raised and given its slot back.
C1_Witness ==
    /\ size = maxsize - 1
    /\ Creating # {}
    /\ getters # <<>>
    /\ ret.op = "get" /\ ret.exc = "ConnectError"

\* C2: no connection is held by two tasks at once, and no connection is in
\* the idle queue while a task holds it.
C2_NoSharedConnection ==
    \A t \in Holders :
        /\ tk[t].conn \notin Range(pool)
        /\ \A u \in Holders : u # t => tk[u].conn # tk[t].conn

\* C2 witness: two scopes run their units of work at the same time, one of
\* them on a connection another task released.
C2_Witness ==
    /\ \E t, u \in Tasks : t # u /\ tk[t].pc = "work" /\ tk[u].pc = "work"
    /\ ret.op = "get" /\ ret.how \in {"idle", "woken"}
    /\ tk[ret.task].pc = "work"

\* C3 (as claimed): in every reachable state self.size equals the number of
\* idle connections plus the number of checked-out connections (a slot whose
\* connection is still being created counts as checked out).
C3_CreatedEqualsIdlePlusCheckedOut ==
    size = Len(pool) + Cardinality(Holders \cup Creating)

\* C4: while maxsize tasks hold a connection, self.size is maxsize, the
\* queue is empty, and no step lets another task obtain a connection or
\* creates one; a count that has reached maxsize with no creation in flight
\* stays there; and a suspended get() resumes with the oldest released
\* connection of the queue, creating nothing.
C4_ExhaustedGetSuspends ==
    /\ [](Cardinality(Holders) = maxsize
            => size = maxsize /\ pool = <<>> /\ Creating = {})
    /\ [][/\ Cardinality(Holders) = maxsize
             => Holders' \subseteq Holders /\ size' = size /\ made' = made
          /\ (size = maxsize /\ Creating = {})
             => (size' = maxsize /\ Creating' = {})
          /\ \A t \in Tasks :
               (tk[t].pc = "waiting" /\ tk'[t].pc # "waiting")
               => /\ pool # <<>>
                  /\ tk'[t].conn = Head(pool)
                  /\ ret'.op = "get" /\ ret'.task = t /\ ret'.conn = Head(pool)
                  /\ size' = size /\ made' = made]_vars

\* C4 witness: a suspended get() has just resumed with a released
\* connection, and again maxsize tasks hold connections while another task
\* is still suspended.
C4_Witness ==
    /\ ret.op = "get" /\ ret.how = "woken"
    /\ Cardinality(Holders) = maxsize
    /\ size = maxsize
    /\ getters # <<>>

\* C5 (as claimed): while tasks are suspended in get(), a connection taken
\* from the idle queue goes to the task suspended longest; no later caller
\* of get() obtains it first.
C5_ReleasedGoesToLongestWaiter ==
    [][(getters # <<>> /\ ret'.op = "get" /\ ret'.how \in {"idle", "woken"})
        => ret'.task = Head(getters)]_vars

\* C6 (as claimed): a scope whose unit of work returns performs exactly one
\* commit and no rollback.
C6_ReturnCommitsOnce ==
    (ret.op = "scope" /\ ret.work = "returned")
        => (ret.commits = 1 /\ ret.rollbacks = 0)

\* C6 (amended): a scope whose unit of work returns with the connection
\* still open performs exactly one commit and no rollback.
C6_OpenReturnCommitsOnce ==
    (ret.op = "scope" /\ ret.work = "returned" /\ ~ret.wasClosed)
        => (ret.commits = 1 /\ ret.rollbacks = 0)

\* C6 witness: a unit of work returned on an open connection; the scope
\* committed and returned the connection to the pool.
C6_Witness ==
    /\ ret.op = "scope" /\ ret.work = "returned" /\ ~ret.wasClosed
    /\ ret.commits = 1 /\ ret.exc = "none" /\ ret.puts = 1

\* C7: a scope whose unit of work raises commits nothing and lets the
\* exception of the unit of work leave the scope; it attempts one rollback
\* if the connection is open, and no rollback but one closeall() if the
\* connection reports closed.
C7_RaiseRollsBackOnce ==
    (ret.op = "scope" /\ ret.work = "raised")
        => /\ ret.exc = "WorkError"
           /\ ret.commits = 0
           /\ IF ret.wasClosed
              THEN ret.rollbacks = 0 /\ ret.closealls = 1
              ELSE ret.rollbacks = 1

\* C7 witness: a unit of work raised on a closed connection while another
\* connection sat idle; closeall() ran and closed it.
C7_Witness ==
    /\ ret.op = "scope" /\ ret.work = "raised" /\ ret.wasClosed
    /\ ret.closealls = 1
    /\ \E c \in Conns : c # ret.conn /\ c <= made /\ closed[c]

\* C8 (as claimed): a scope that overrode the isolation level hands the
\* connection back to the pool at the level it had before the scope.
C8_LevelRestored ==
    (ret.op = "scope" /\ ret.iso # None /\ ret.puts = 1)
        => level[ret.conn] = ret.prior

\* C9 (as claimed): when the unit of work raises on an open connection and
\* rollback() fails, the failure goes to the hub, the exception of the unit
\* of work leaves the scope, and the connection is back in the idle queue.
C9_FailedRollbackKeepsConnection ==
    (ret.op = "scope" /\ ret.work = "raised" /\ ~ret.wasClosed /\ ret.reported = 1)
        => /\ ret.exc = "WorkError"
           /\ ret.puts = 1
           /\ ret.conn \in Range(pool)

\* C9 (amended): when the unit of work raises on an open connection and
\* rollback() fails, the failure goes to the hub, the exception of the unit
\* of work leaves the scope, and the connection is abandoned: the scope makes
\* no further set_isolation_level call and does not put it in the idle queue.
C9_FailedRollbackDropsConnection ==
    (ret.op = "scope" /\ ret.work = "raised" /\ ~ret.wasClosed /\ ret.reported = 1)
        => /\ ret.exc = "WorkError"
           /\ ret.rollbacks = 1
           /\ ret.puts = 0
           /\ ret.conn \notin Range(pool)
           /\ ret.sets = (IF ret.iso # None THEN 1 ELSE 0)
           /\ level[ret.conn] = (IF ret.iso # None THEN ret.iso ELSE ret.prior)

\* C9 witness: rollback() failed in a scope that had overridden the
\* isolation level of an open connection.
C9_Witness ==
    /\ ret.op = "scope" /\ ret.work = "raised" /\ ~ret.wasClosed
    /\ ret.reported = 1 /\ ret.rollbacks = 1
    /\ ret.iso # None /\ ret.iso # ret.prior
    /\ ~closed[ret.conn]

\* C10 (as claimed): when closeall() has returned, self.size equals the
\* number of connections still checked out.
C10_CloseAllResetsCreated ==
    ret.closealls = 1 => size = Cardinality(Holders \cup Creating)

\* C11 (as claimed): the pool never reaches a state in which a task is
\* suspended in get() while the idle queue is empty, no connection is
\* checked out or being created, and no slot is left to create one: from
\* such a state no get() ever returns.
C11_NoDeadPool ==
    ~(/\ getters # <<>>
      /\ pool = <<>>
      /\ Holders = {}
      /\ Creating = {}
      /\ size >= maxsize)

\* C12 (as claimed): when every holder calls put() and scheduling is fair,
\* every task suspended in get() eventually holds a connection.
C12_WaiterEventuallyResumes ==
    \A t \in Tasks : (tk[t].pc = "waiting") ~> (tk[t].pc = "holding")

\* C13 (as claimed): put() called with a connection whose closed flag is set
\* leaves the idle queue unchanged.
C13_PutSkipsClosed ==
    [][\A t \in Tasks :
         (tk[t].pc = "holding" /\ closed[tk[t].conn]
            /\ ret'.op = "put" /\ ret'.task = t)
         => pool' = pool]_vars

\* C14: with tasks that only call get() and put(), under every interleaving,
\* self.size counts exactly the idle connections, the held ones and the
\* creations in flight, so no failed create leaves a slot behind; the call
\* that fails counted one slot when it started and gives exactly that slot
\* back, raises the connect error to its caller, and leaves the idle queue
\* and the suspended getters as they were.
C14_FailedCreateGivesSlotBack ==
    /\ [](size = Len(pool) + Cardinality(Holders \cup Creating))
    /\ [][\A t \in Tasks :
            /\ (tk[t].pc = "idle" /\ tk'[t].pc = "creating")
               => (size' = size + 1 /\ pool' = pool)
            /\ (tk[t].pc = "creating" /\ ret'.op = "get"
                  /\ ret'.how = "failed" /\ ret'.task = t)
               => /\ ret'.exc = "ConnectError"
                  /\ tk'[t].pc = "idle"
                  /\ size' = size - 1
                  /\ pool' = pool
                  /\ getters' = getters]_vars

\* C14 witness: a create_connection() has just raised while another task
\* holds a connection that a third task created and released during the
\* failing connect.
C14_Witness ==
    /\ ret.op = "get" /\ ret.how = "failed" /\ ret.exc = "ConnectError"
    /\ \E t \in Tasks : tk[t].pc = "holding" /\ t # ret.task
    /\ size = Cardinality(Holders) + Len(pool)
    /\ size < maxsize

\* C15: closeall() runs without yielding, so no put() is concurrent with it;
\* when it returns, alone or from the except block of a scope, the idle
\* queue is empty, close() has been called exactly once on every connection
\* that was idle, in queue order, each of them reports closed, and this
\* holds whichever of the close() calls raised.
C15_CloseAllClosesEveryIdle ==
    [][ret'.closealls = 1 =>
         /\ pool' = <<>>
         /\ ret'.closeCalls = pool
         /\ \A c \in Range(pool) :
              /\ Cardinality({i \in DOMAIN ret'.closeCalls :
                                ret'.closeCalls[i] = c}) = 1
              /\ closed'[c]
         /\ ret'.swallowed \subseteq Range(pool)]_vars

\* C15 witness: closeall() found two idle connections, close() raised on the
\* first one and the second one was closed all the same.
C15_Witness ==
    /\ ret.op = "closeall"
    /\ Len(ret.closeCalls) = 2
    /\ ret.closeCalls[1] \in ret.swallowed
    /\ ret.closeCalls[2] \notin ret.swallowed
    /\ closed[ret.closeCalls[2]]
    /\ pool = <<>>

\* C19: at every exit of a connection() scope (the unit of work returned,
\* raised, or commit() failed), every connection the exit adds to the idle
\* queue is open when it is added, and a scope whose connection reports
\* closed at the finally block enqueues nothing.
C19_ScopeNeverEnqueuesClosed ==
    [][ret'.op = "scope" =>
         /\ \A c \in Range(pool') \ Range(pool) : ~closed'[c]
         /\ closed'[ret'.conn] =>
              (ret'.puts = 0 /\ ret'.conn \notin Range(pool'))
         /\ ret'.puts = 1 => ret'.conn \in Range(pool')]_vars

\* C19 witness: commit() failed and left the connection closed; the scope
\* ended without a put().
C19_Witness ==
    /\ ret.op = "scope"
    /\ ret.exc = "CommitError"
    /\ closed[ret.conn]
    /\ ret.puts = 0
    /\ ret.conn \notin Range(pool)

\* C20: when the unit of work closed the connection and returned normally,
\* the scope raises OperationalError, calls neither commit() nor rollback()
\* nor close() on the connection, sets no isolation level after the one of
\* scope entry, and does not put the connection in the idle queue.
C20_ClosedByWorkRaisesOperationalError ==
    (ret.op = "scope" /\ ret.work = "returned" /\ ret.wasClosed) =>
        /\ ret.exc = "OperationalError"
        /\ ret.commits = 0
        /\ ret.rollbacks = 0
        /\ ret.closealls = 0
        /\ ret.closeCalls = <<>>
        /\ ret.sets = (IF ret.iso # None THEN 1 ELSE 0)
        /\ ret.puts = 0
        /\ ret.conn \notin Range(pool)

\* C20 witness: a scope that had set the requested level at entry ended this
\* way.
C20_Witness ==
    /\ ret.op = "scope"
    /\ ret.work = "returned"
    /\ ret.wasClosed
    /\ ret.exc = "OperationalError"
    /\ ret.iso # None
    /\ closed[ret.conn]

\* C16 (as claimed): a fetchiter() that has run to the end of a result set
\* of M records with batch size B has issued exactly ceil(M/B) fetchmany()
\* calls.
C16_FetchesCeiling ==
    fi.pc = "exhausted" => fi.fetches = (fi.M + fi.B - 1) \div fi.B

\* C16 (amended): fetchiter() issues no more than ceil(M/B) + 1 fetchmany()
\* calls, and exactly that many once it has run to the end: ceil(M/B) calls
\* that return records and the call that returns the empty batch which ends
\* the loop.
C16_FetchesCeilingPlusOne ==
    /\ fi.fetches <= (fi.M + fi.B - 1) \div fi.B + 1
    /\ fi.pc = "exhausted" =>
         /\ fi.fetches = (fi.M + fi.B - 1) \div fi.B + 1
         /\ fi.items = <<>>
         /\ fi.pos = fi.M

\* C16 witness: three records in batches of two were fetched with three
\* calls and the scope has ended.
C16_Witness ==
    /\ fi.pc = "exhausted"
    /\ fi.M = 3 /\ fi.B = 2
    /\ fi.fetches = 3
    /\ tk[fi.task].pc = "idle"
    /\ ret.op = "scope" /\ ret.task = fi.task

\* C17 (as claimed): once the constructor has run, a pool size that is not
\* an integer, or is zero or negative, has made ClientPool() fail, and a
\* pool_type that is not a known selector has made DBPoolEngine() fail.
C17_InvalidArgumentsFailAtConstruction ==
    /\ (ctor.cls = "pool" /\ ctor.pc \notin {"none", "args"}
          /\ (~ctor.isInt \/ ctor.arg <= 0))
       => ctor.pc = "failed"
    /\ (ctor.cls = "engine" /\ ctor.pc \notin {"none", "args"}
          /\ ctor.ptype \notin POOL_TYPE)
       => ctor.pc = "failed"

\* C18: every failure of a call made through query() (unknown fetch mode or
\* cursor type, failed connect, statement error, OperationalError of the
\* scope, failed commit) reaches the caller as DBPoolError whose one
\* argument is the args of the original error, never as the original
\* exception; when the statement raised, the scope has rolled back once and
\* returned the open connection, or run closeall() for a closed one, before
\* the wrapped error surfaces.
C18_QueryWrapsEveryFailure ==
    ret.api = "query" =>
        /\ ret.exc \in {"none", "DBPoolError"}
        /\ ret.exc = "none" => ret.args = <<>>
        /\ ret.exc = "DBPoolError" =>
             \E e \in {"TypeError", "AttributeError", "ConnectError",
                       "WorkError", "OperationalError", "CommitError"} :
                ret.args = << <<e>> >>
        /\ ret.op = "query" => ret.args \in {<< <<"TypeError">> >>,
                                             << <<"AttributeError">> >>}
        /\ ret.op = "get" => ret.args = << <<"ConnectError">> >>
        /\ (ret.op = "scope" /\ ret.work = "raised") =>
             /\ ret.args = << <<"WorkError">> >>
             /\ ret.commits = 0
             /\ IF ret.wasClosed
                THEN ret.rollbacks = 0 /\ ret.closealls = 1 /\ ret.puts = 0
                ELSE /\ ret.rollbacks = 1
                     /\ ret.closealls = 0
                     /\ ret.puts = 1 - ret.reported
                     /\ ret.puts = 1 => ret.conn \in Range(pool)
        /\ (ret.op = "scope" /\ ret.work = "returned" /\ ret.wasClosed) =>
             ret.args = << <<"OperationalError">> >>

\* C18 witness: the statement of a query() raised; the scope rolled back,
\* put the connection back, and the caller got DBPoolError with the
\* statement error's args.
C18_Witness ==
    /\ ret.api = "query"
    /\ ret.op = "scope"
    /\ ret.work = "raised"
    /\ ret.exc = "DBPoolError"
    /\ ret.args = << <<"WorkError">> >>
    /\ ret.rollbacks = 1
    /\ ret.puts = 1
    /\ ret.conn \in Range(pool)

\* C21: a scope entered with isolation_level = L on a connection that is
\* already at level L makes no set_isolation_level() call, at entry or at
\* exit, whether the unit of work returns or raises, and the connection is
\* still at L when the scope has ended.
C21_NoSetWhenLevelMatches ==
    /\ \A t \in Tasks :
         (tk[t].pc = "work" /\ tk[t].req # None /\ tk[t].req = tk[t].prior)
         => (tk[t].iso = None /\ level[tk[t].conn] = tk[t].prior)
    /\ (ret.op = "scope" /\ ret.req # None /\ ret.req = ret.prior)
       => (ret.iso = None /\ ret.sets = 0 /\ level[ret.conn] = ret.prior)

\* C21 witness: a scope that asked for the level its connection already had
\* raised, rolled back and returned the connection without any set.
C21_Witness ==
    /\ ret.op = "scope"
    /\ ret.req # None /\ ret.req = ret.prior
    /\ ret.work = "raised"
    /\ ret.rollbacks = 1
    /\ ret.puts = 1
    /\ ret.sets = 0

\* C22: a freshly constructed pool has created = 0 and an empty idle queue;
\* a get() called while the idle queue holds connections returns the oldest
\* of them at once and leaves created and the number of connections made
\* unchanged; a get() counts a new connection, adding one to created, only
\* when the idle queue is empty and created is below the ceiling, and
\* suspends when the queue is empty and created is at the ceiling; a getter
\* that is woken also takes the oldest idle connection.
C22_GetPrefersOldestIdle ==
    /\ size = 0 /\ pool = <<>>
    /\ [][/\ \A t \in Tasks :
               (tk[t].pc = "idle" /\ tk'[t].pc # "idle") =>
                  IF pool # <<>>
                  THEN /\ ret'.op = "get" /\ ret'.how = "idle"
                       /\ ret'.task = t
                       /\ ret'.conn = Head(pool)
                       /\ tk'[t].conn = Head(pool)
                       /\ pool' = Tail(pool)
                       /\ size' = size /\ made' = made
                  ELSE IF size < maxsize
                  THEN /\ tk'[t].pc = "creating"
                       /\ size' = size + 1
                       /\ pool' = pool /\ made' = made
                  ELSE /\ tk'[t].pc = "waiting"
                       /\ size' = size /\ made' = made /\ pool' = pool
          /\ size' > size => (size' = size + 1 /\ pool = <<>> /\ size < maxsize)
          /\ made' # made =>
               (made' = made + 1 /\ pool' = pool
                  /\ \E t \in Tasks : tk[t].pc = "creating")
          /\ (ret'.op = "get" /\ ret'.how = "woken") =>
               (ret'.conn = Head(pool) /\ pool' = Tail(pool))]_vars

\* C22 witness: connection 2 was released before connection 1, and a get()
\* with both idle returned connection 2 and created nothing.
C22_Witness ==
    /\ ret.op = "get" /\ ret.how = "idle"
    /\ ret.conn = 2
    /\ pool = <<1>>
    /\ size = 2 /\ made = 2

\* C23: gevent_wait_callback returns only when the last poll() reported
\* POLL_OK; every poll result before the last was POLL_READ or POLL_WRITE
\* and was followed by one wait of that kind on the connection's file
\* descriptor, after which poll() was called again; a poll result that is
\* none of the three raises OperationalError and poll() is not called again.
C23_WaitCallbackPollsUntilOk ==
    /\ [](/\ \A i \in 1..Len(wcb.waited) :
               /\ i <= Len(wcb.seen)
               /\ wcb.seen[i] = (IF wcb.waited[i] = "read" THEN "POLL_READ"
                                 ELSE "POLL_WRITE")
          /\ \A i \in 1..(Len(wcb.seen) - 1) :
               wcb.seen[i] \in {"POLL_READ", "POLL_WRITE"}
          /\ wcb.pc = "poll" => Len(wcb.waited) = Len(wcb.seen)
          /\ wcb.pc = "returned" =>
               /\ wcb.seen # <<>>
               /\ wcb.seen[Len(wcb.seen)] = "POLL_OK"
               /\ Len(wcb.waited) = Len(wcb.seen) - 1
               /\ wcb.exc = "none"
          /\ (wcb.seen # <<>>
                /\ wcb.seen[Len(wcb.seen)]
                     \notin {"POLL_OK", "POLL_READ", "POLL_WRITE"})
             => /\ wcb.pc = "raised"
                /\ wcb.exc = "OperationalError"
                /\ Len(wcb.waited) = Len(wcb.seen) - 1)
    /\ [][(wcb.pc \in {"returned", "raised"}) => wcb' = wcb]_vars

\* C23 witness: the callback waited for write, then for read, and returned
\* on the third poll.
C23_Witness ==
    /\ wcb.pc = "returned"
    /\ wcb.seen = <<"POLL_WRITE", "POLL_READ", "POLL_OK">>
    /\ wcb.waited = <<"write", "read">>

\* C24: what fetchiter() has yielded is at every moment the first records
\* of the result set, each once, in cursor order; once the iteration is
\* exhausted all M records have been yielded; the scope ends only then (or
\* on a close), with exactly one commit() and no rollback, and when the
\* commit succeeds the connection is put back in the idle queue once.
C24_FetchIterYieldsAllThenCommits ==
    /\ [](/\ Len(fi.out) <= fi.M
          /\ \A i \in 1..Len(fi.out) : fi.out[i] = i
          /\ fi.pc = "exhausted" => fi.out = [i \in 1..fi.M |-> i])
    /\ [][(tk[fi.task].pc = "work" /\ tk'[fi.task].pc # "work") =>
            /\ fi.pc \in {"exhausted", "closing"}
            /\ fi.pc = "exhausted" =>
                 /\ ret'.op = "scope" /\ ret'.task = fi.task
                 /\ ret'.work = "returned"
                 /\ ret'.commits = 1
                 /\ ret'.rollbacks = 0
                 /\ ret'.exc = "none" =>
                      /\ ret'.puts = 1
                      /\ pool' = Append(pool, tk[fi.task].conn)
                      /\ ~closed'[tk[fi.task].conn]]_vars

\* C24 witness: three records were yielded in order, the scope committed and
\* the connection is idle again.
C24_Witness ==
    /\ fi.pc = "exhausted"
    /\ fi.M = 3
    /\ fi.out = <<1, 2, 3>>
    /\ ret.op = "scope" /\ ret.task = fi.task
    /\ ret.commits = 1 /\ ret.exc = "none" /\ ret.puts = 1
    /\ ret.conn \in Range(pool)

====
